---- MODULE Spec2Model ----
(***************************************************************************)
(* Contract taxonomy and payoff evaluation (src/src/contract.py) and the   *)
(* market model with its bump operations                                   *)
(* (src/Lectures/2024_fall_BME/05_FlatVol/model.py).                       *)
(*                                                                         *)
(* Numbers are fixed-point integers in units of 1/One, with One a common   *)
(* multiple of every admissible series length, so that the arithmetic mean *)
(* of a price series of whole prices is exact.                             *)
(***************************************************************************)
EXTENDS Integers, Sequences, FiniteSets, TLC

VARIABLES c, g, x, res, gres, aux, err, args, assigned,
          underlying, kind, risk_free_rate, spot, volgrid,
          sumRate, sumSpot, sumVol, lastOp, lastArg, lastCoord, lastOut

vars == <<c, g, x, res, gres, aux, err, args, assigned,
          underlying, kind, risk_free_rate, spot, volgrid,
          sumRate, sumSpot, sumVol, lastOp, lastArg, lastCoord, lastOut>>

contractVars == <<c, g, x, res, gres, aux, err, args, assigned>>

marketVars == <<underlying, kind, risk_free_rate, spot, volgrid,
                sumRate, sumSpot, sumVol, lastOp, lastArg, lastCoord, lastOut>>

(***************************************************************************)
(* Bounds of the model.                                                    *)
(***************************************************************************)
MaxLen == 3

MaxPrice == 2

MaxBump == 2

RECURSIVE Factorial(_)
Factorial(n) == IF n <= 1 THEN 1 ELSE n * Factorial(n - 1)

One == Factorial(MaxLen)

Num(n) == n * One

PriceVals == {Num(p) : p \in 0..MaxPrice}

StrikeVals == {Num(1), Num(2)}

ExpiryVals == {Num(1), Num(2)}

BarrierVals == {Num(1), Num(2)}

\* np.Inf: above every price of the model, so Inf >= price and ~(Inf <= price)
Inf == Num(MaxPrice + 1)

(***************************************************************************)
(* Enumerations (members equal their string names, as main() relies on).   *)
(***************************************************************************)
Stock == {"Apple"}

PutCallFwd == {"CALL", "PUT", "FWD"}

LongShort == {"LONG", "SHORT"}

UpDown == {"UP", "DOWN"}

InOut == {"IN", "OUT"}

ContractType == {"FORWARD", "EUROPEANOPTION", "AMERICANOPTION",
                 "EUROPEANDIGITALOPTION", "ASIANOPTION", "EUROPEANBARRIEROPTION"}

None == "None"

Max(a, b) == IF a >= b THEN a ELSE b

\* int(bool)
B2I(b) == IF b THEN 1 ELSE 0

\* float(bool): 1.0 or 0.0
Float(b) == IF b THEN One ELSE 0

RECURSIVE SeqSum(_)
SeqSum(s) == IF s = <<>> THEN 0 ELSE Head(s) + SeqSum(Tail(s))

\* statistics.mean
mean(s) == SeqSum(s) \div Len(s)

(***************************************************************************)
(* Objects.  A contract is a record of the attributes its constructor      *)
(* sets; barrier, updown and inout exist on barrier and generic contracts  *)
(* only and are None elsewhere.                                            *)
(***************************************************************************)
NoContract ==
    [cls |-> None, contract |-> None, und |-> None, dtype |-> None,
     longshort |-> None, ls |-> 0, strike |-> 0, expiry |-> 0, num_mon |-> 0,
     barrier |-> 0, updown |-> None, inout |-> None]

BaseFields == {"_underlying", "_derivative_type", "_derivative_longshort",
               "ls", "_strike", "_expiry", "_num_mon"}

BarrierFields == {"_barrier", "_updown", "_inout"}

\* variant: the position test never succeeds
Contract_ls_always_short(longshort) == -1

Contract_ls(longshort) == IF longshort = "LONG" THEN 1 ELSE -1

\* Contract.__init__; num_mon defaults to 1 and no subclass passes it
Contract_init(cls, und, dtype, longshort, strk, exp, num_mon) ==
    [cls |-> cls, contract |-> None, und |-> und, dtype |-> dtype,
     longshort |-> longshort, ls |-> Contract_ls(longshort),
     strike |-> strk, expiry |-> exp, num_mon |-> num_mon,
     barrier |-> 0, updown |-> None, inout |-> None]

\* outcome of a constructor call
Raised(what) == [raised |-> what, self |-> NoContract, assigned |-> {}]

Built(self, fields) == [raised |-> None, self |-> self, assigned |-> fields]

ErrDerivativeType == "TypeError: derivative type must be CALL or PUT"

ErrUpdown == "TypeError: updown must be UP or DOWN"

ErrInout == "TypeError: inout must be IN or OUT"

ForwardContract_init(und, longshort, strk, exp) ==
    Built([Contract_init("ForwardContract", und, "FWD", longshort, strk, exp, 1)
               EXCEPT !.contract = "FORWARD"],
          BaseFields \cup {"_contract"})

\* shared shape of the European, American, EuropeanDigital and Asian constructors
OptionContract_init(cls, tag, und, dtype, longshort, strk, exp) ==
    IF dtype \notin {"CALL", "PUT"}
    THEN Raised(ErrDerivativeType)
    ELSE Built([Contract_init(cls, und, dtype, longshort, strk, exp, 1)
                    EXCEPT !.contract = tag],
               BaseFields \cup {"_contract"})

EuropeanContract_init(und, dtype, longshort, strk, exp) ==
    OptionContract_init("EuropeanContract", "EUROPEANOPTION", und, dtype, longshort, strk, exp)

AmericanContract_init(und, dtype, longshort, strk, exp) ==
    OptionContract_init("AmericanContract", "AMERICANOPTION", und, dtype, longshort, strk, exp)

EuropeanDigitalContract_init(und, dtype, longshort, strk, exp) ==
    OptionContract_init("EuropeanDigitalContract", "EUROPEANDIGITALOPTION", und, dtype,
                        longshort, strk, exp)

AsianContract_init(und, dtype, longshort, strk, exp) ==
    OptionContract_init("AsianContract", "ASIANOPTION", und, dtype, longshort, strk, exp)

\* variant: the barrier constructor accepts the generic contract's inout set
EuropeanBarrierContract_init_lenient(und, dtype, longshort, strk, exp, barrier, updown, inout) ==
    IF dtype \notin {"CALL", "PUT"} THEN Raised(ErrDerivativeType)
    ELSE IF updown \notin {"UP", "DOWN"} THEN Raised(ErrUpdown)
    ELSE IF inout \notin {"IN", "OUT", None} THEN Raised(ErrInout)
    ELSE Built([Contract_init("EuropeanBarrierContract", und, dtype, longshort, strk, exp, 1)
                    EXCEPT !.contract = "EUROPEANBARRIEROPTION", !.barrier = barrier,
                           !.updown = updown, !.inout = inout],
               BaseFields \cup {"_contract"} \cup BarrierFields)

EuropeanBarrierContract_init(und, dtype, longshort, strk, exp, barrier, updown, inout) ==
    IF dtype \notin {"CALL", "PUT"} THEN Raised(ErrDerivativeType)
    ELSE IF updown \notin {"UP", "DOWN"} THEN Raised(ErrUpdown)
    ELSE IF inout \notin {"IN", "OUT"} THEN Raised(ErrInout)
    ELSE Built([Contract_init("EuropeanBarrierContract", und, dtype, longshort, strk, exp, 1)
                    EXCEPT !.contract = "EUROPEANBARRIEROPTION", !.barrier = barrier,
                           !.updown = updown, !.inout = inout],
               BaseFields \cup {"_contract"} \cup BarrierFields)

GenericContract_init(contract, und, dtype, longshort, strk, exp, barrier, updown, inout) ==
    IF dtype \notin {"CALL", "PUT", "FWD"} THEN Raised(ErrDerivativeType)
    ELSE IF updown \notin {"UP", "DOWN", None} THEN Raised(ErrUpdown)
    ELSE IF inout \notin {"IN", "OUT", None} THEN Raised(ErrInout)
    ELSE Built([Contract_init("GenericContract", und, dtype, longshort, strk, exp, 1)
                    EXCEPT !.contract = contract, !.barrier = barrier,
                           !.updown = updown, !.inout = inout],
               BaseFields \cup {"_contract"} \cup BarrierFields)

(***************************************************************************)
(* Price inputs and results.                                               *)
(***************************************************************************)
NoInput == [shape |-> None, prices |-> <<>>]

Scalar(p) == [shape |-> "scalar", prices |-> <<p>>]

Series(s) == [shape |-> "list", prices |-> s]

PriceSeries == UNION {[1..n -> PriceVals] : n \in 1..MaxLen}

Inputs == {Scalar(p) : p \in PriceVals} \cup {Series(s) : s \in PriceSeries}

\* the input shape a payoff with this kind tag reads
ShapeOf(contract) ==
    IF contract \in {"ASIANOPTION", "EUROPEANBARRIEROPTION"} THEN "list" ELSE "scalar"

Pending == [kind |-> "pending", val |-> 0]

Value(v) == [kind |-> "float", val |-> v]

ReturnsNone == [kind |-> None, val |-> 0]

Raises(what) == [kind |-> what, val |-> 0]

NoAux == [op |-> None, who |-> None, flag |-> FALSE, seq |-> <<>>]

(***************************************************************************)
(* Timelines.                                                              *)
(***************************************************************************)
VanillaContract_get_timeline(self) == <<self.expiry>>

\* variant: i / num_mon in place of (i + 1) / num_mon
PathDependentContract_get_timeline_from_zero(self) ==
    [i \in 1..self.num_mon |-> ((i - 1) * self.expiry) \div self.num_mon]

PathDependentContract_get_timeline(self) ==
    [i \in 1..self.num_mon |-> (i * self.expiry) \div self.num_mon]

get_timeline(self) ==
    IF self.cls \in {"AsianContract", "EuropeanBarrierContract", "GenericContract"}
    THEN PathDependentContract_get_timeline(self)
    ELSE VanillaContract_get_timeline(self)

(***************************************************************************)
(* Payoffs.                                                                *)
(***************************************************************************)
ForwardContract_payoff(self, spot_) == Value(self.ls * (spot_ - self.strike))

EuropeanContract_payoff(self, spot_) ==
    IF self.dtype = "CALL" THEN Value(self.ls * Max(spot_ - self.strike, 0))
    ELSE IF self.dtype = "PUT" THEN Value(self.ls * Max(self.strike - spot_, 0))
    ELSE Raises(ErrDerivativeType)

AmericanContract_payoff(self, spot_) ==
    IF self.dtype = "CALL" THEN Value(self.ls * Max(spot_ - self.strike, 0))
    ELSE IF self.dtype = "PUT" THEN Value(self.ls * Max(self.strike - spot_, 0))
    ELSE Raises(ErrDerivativeType)

\* variant: the indicator includes the strike
EuropeanDigitalContract_payoff_inclusive(self, spot_) ==
    IF self.dtype = "CALL" THEN Value(self.ls * Float(spot_ - self.strike >= 0))
    ELSE IF self.dtype = "PUT" THEN Value(self.ls * Float(self.strike - spot_ >= 0))
    ELSE Raises(ErrDerivativeType)

EuropeanDigitalContract_payoff(self, spot_) ==
    IF self.dtype = "CALL" THEN Value(self.ls * Float(spot_ - self.strike > 0))
    ELSE IF self.dtype = "PUT" THEN Value(self.ls * Float(self.strike - spot_ > 0))
    ELSE Raises(ErrDerivativeType)

AsianContract_payoff(self, prices_und) ==
    IF self.dtype = "CALL" THEN Value(self.ls * Max(mean(prices_und) - self.strike, 0))
    ELSE IF self.dtype = "PUT" THEN Value(self.ls * Max(self.strike - mean(prices_und), 0))
    ELSE Raises(ErrDerivativeType)

EuropeanBarrierContract_is_breached(self, prices_und) ==
    IF self.updown = "UP"
    THEN \E i \in 1..Len(prices_und) : self.barrier <= prices_und[i]
    ELSE \E i \in 1..Len(prices_und) : self.barrier >= prices_und[i]

\* variant: the OUT term uses the breach flag itself
EuropeanBarrierContract_payoff_no_knockout(self, prices_und) ==
    LET mult == B2I(self.inout = "IN") * B2I(EuropeanBarrierContract_is_breached(self, prices_und))
                + B2I(self.inout = "OUT")
                  * B2I(EuropeanBarrierContract_is_breached(self, prices_und))
        last == prices_und[Len(prices_und)]
    IN  IF self.dtype = "CALL" THEN Value(mult * self.ls * Max(last - self.strike, 0))
        ELSE IF self.dtype = "PUT" THEN Value(mult * self.ls * Max(self.strike - last, 0))
        ELSE Raises(ErrDerivativeType)

EuropeanBarrierContract_payoff(self, prices_und) ==
    LET mult == B2I(self.inout = "IN") * B2I(EuropeanBarrierContract_is_breached(self, prices_und))
                + B2I(self.inout = "OUT")
                  * (1 - B2I(EuropeanBarrierContract_is_breached(self, prices_und)))
        last == prices_und[Len(prices_und)]
    IN  IF self.dtype = "CALL" THEN Value(mult * self.ls * Max(last - self.strike, 0))
        ELSE IF self.dtype = "PUT" THEN Value(mult * self.ls * Max(self.strike - last, 0))
        ELSE Raises(ErrDerivativeType)

\* variant: strict comparisons with the barrier
GenericContract_is_breached_strict(self, prices_und) ==
    IF self.updown = "UP"
    THEN \E i \in 1..Len(prices_und) : self.barrier < prices_und[i]
    ELSE \E i \in 1..Len(prices_und) : self.barrier > prices_und[i]

GenericContract_is_breached(self, prices_und) ==
    IF self.updown = "UP"
    THEN \E i \in 1..Len(prices_und) : self.barrier <= prices_und[i]
    ELSE \E i \in 1..Len(prices_und) : self.barrier >= prices_und[i]

GenericContract_payoff(self, inp) ==
    LET prices_und == inp.prices
        p == prices_und[1]
    IN  IF self.contract = "FORWARD"
        THEN Value(self.ls * (p - self.strike))
        ELSE IF self.contract \in {"AMERICANOPTION", "EUROPEANOPTION"}
        THEN IF self.dtype = "CALL" THEN Value(self.ls * Max(p - self.strike, 0))
             ELSE IF self.dtype = "PUT" THEN Value(self.ls * Max(self.strike - p, 0))
             ELSE ReturnsNone
        ELSE IF self.contract = "EUROPEANDIGITALOPTION"
        THEN IF self.dtype = "CALL" THEN Value(self.ls * Float(p - self.strike > 0))
             ELSE IF self.dtype = "PUT" THEN Value(self.ls * Float(self.strike - p > 0))
             ELSE ReturnsNone
        ELSE IF self.contract = "ASIANOPTION"
        THEN IF self.dtype = "CALL"
             THEN Value(self.ls * Max(mean(prices_und) - self.strike, 0))
             ELSE IF self.dtype = "PUT"
             THEN Value(self.ls * Max(self.strike - mean(prices_und), 0))
             ELSE ReturnsNone
        ELSE IF self.contract = "EUROPEANBARRIEROPTION"
        THEN LET mult == B2I(self.inout = "IN")
                           * B2I(GenericContract_is_breached(self, prices_und))
                         + B2I(self.inout = "OUT")
                           * (1 - B2I(GenericContract_is_breached(self, prices_und)))
                 last == prices_und[Len(prices_und)]
             IN  IF self.dtype = "CALL"
                 THEN Value(mult * self.ls * Max(last - self.strike, 0))
                 ELSE IF self.dtype = "PUT"
                 THEN Value(mult * self.ls * Max(self.strike - last, 0))
                 ELSE ReturnsNone
        ELSE ReturnsNone

\* dynamic dispatch of payoff on a concrete contract
payoff(self, inp) ==
    CASE self.cls = "ForwardContract" -> ForwardContract_payoff(self, inp.prices[1])
      [] self.cls = "EuropeanContract" -> EuropeanContract_payoff(self, inp.prices[1])
      [] self.cls = "AmericanContract" -> AmericanContract_payoff(self, inp.prices[1])
      [] self.cls = "EuropeanDigitalContract" ->
             EuropeanDigitalContract_payoff(self, inp.prices[1])
      [] self.cls = "AsianContract" -> AsianContract_payoff(self, inp.prices)
      [] self.cls = "EuropeanBarrierContract" ->
             EuropeanBarrierContract_payoff(self, inp.prices)

(***************************************************************************)
(* convert_to_generic: every concrete class builds a GenericContract from  *)
(* the arguments it is given; the barrier class passes three more.         *)
(***************************************************************************)
\* variant: strike and expiry passed in the wrong order
convert_to_generic_swapped(contract, und, dtype, longshort, strk, exp) ==
    GenericContract_init(contract, und, dtype, longshort, exp, strk, Inf, None, None)

convert_to_generic(contract, und, dtype, longshort, strk, exp) ==
    GenericContract_init(contract, und, dtype, longshort, strk, exp, Inf, None, None)

EuropeanBarrierContract_convert_to_generic(contract, und, dtype, longshort, strk, exp, barrier, updown, inout) ==
    GenericContract_init(contract, und, dtype, longshort, strk, exp, barrier, updown, inout)

\* the call main() makes: the contract's own accessor values
ToGeneric(self) ==
    IF self.cls = "EuropeanBarrierContract"
    THEN EuropeanBarrierContract_convert_to_generic(
             self.contract, self.und, self.dtype, self.longshort, self.strike, self.expiry,
             self.barrier, self.updown, self.inout)
    ELSE convert_to_generic(self.contract, self.und, self.dtype, self.longshort,
                            self.strike, self.expiry)

(***************************************************************************)
(* Market model.  MarketData and VolGrid are collaborators: the grid is a  *)
(* table of values over (strike, expiry) points, looked up by coordinate.  *)
(***************************************************************************)
Rate0 == 3

Spot0 == 10

GridStrikes == (Spot0 - MaxBump)..(Spot0 + MaxBump)

GridExpiries == {1, 2}

GridPoints == GridStrikes \X GridExpiries

Vol0(pt) == 20 + pt[1] + 3 * pt[2]

MarketData_get_risk_free_rate == Rate0

MarketData_get_spot(und) == Spot0

MarketData_get_volgrid(und) == [pt \in GridPoints |-> Vol0(pt)]

VolGrid_get_vol(grid, coordinate) == grid[coordinate]

BumpSizes == {-1, 1}

Tenors == {1, 2}

\* variant: the expiry argument is not overwritten
BSVolModel_coordinate_keeps_expiry(self_spot, strike, expiry) == <<self_spot, expiry>>

\* BSVolModel.get_vol: atm_strike = 1.0 * self.spot; expiry = 1.0
BSVolModel_coordinate(self_spot, strike, expiry) == <<self_spot, 1>>

\* FlatVolModel.get_vol
FlatVolModel_coordinate(self_spot, strike, expiry) == <<strike, expiry>>

\* np.exp(-1.0 * rate * tenor), kept as its exponent
calc_df_exponent(rate, tenor) == -1 * rate * tenor

NoMarket ==
    /\ underlying = None
    /\ kind = None
    /\ risk_free_rate = 0
    /\ spot = 0
    /\ volgrid = <<>>
    /\ sumRate = 0
    /\ sumSpot = 0
    /\ sumVol = 0
    /\ lastOp = None
    /\ lastArg = <<>>
    /\ lastCoord = <<>>
    /\ lastOut = 0

NoTrade ==
    /\ c = NoContract
    /\ g = NoContract
    /\ x = NoInput
    /\ res = Pending
    /\ gres = Pending
    /\ aux = NoAux
    /\ err = None
    /\ args = [cls |-> None, dtype |-> None, updown |-> None, inout |-> None]
    /\ assigned = {}

(***************************************************************************)
(* Contract operations.                                                    *)
(***************************************************************************)
Blank == c = NoContract /\ g = NoContract /\ err = None

\* the effect of `trade = Cls(...)`: r is the constructor's outcome
Construct(r, a) ==
    /\ c' = r.self
    /\ err' = r.raised
    /\ assigned' = r.assigned
    /\ args' = a
    /\ UNCHANGED <<g, x, res, gres, aux>>
    /\ UNCHANGED marketVars

NewForwardContract ==
    /\ Blank
    /\ \E und \in Stock, longshort \in LongShort, strk \in StrikeVals, exp \in ExpiryVals :
        Construct(ForwardContract_init(und, longshort, strk, exp),
                  [cls |-> "ForwardContract", dtype |-> "FWD", updown |-> None, inout |-> None])

NewEuropeanContract ==
    /\ Blank
    /\ \E und \in Stock, dtype \in PutCallFwd, longshort \in LongShort,
       strk \in StrikeVals, exp \in ExpiryVals :
        Construct(EuropeanContract_init(und, dtype, longshort, strk, exp),
                  [cls |-> "EuropeanContract", dtype |-> dtype, updown |-> None, inout |-> None])

NewAmericanContract ==
    /\ Blank
    /\ \E und \in Stock, dtype \in PutCallFwd, longshort \in LongShort,
       strk \in StrikeVals, exp \in ExpiryVals :
        Construct(AmericanContract_init(und, dtype, longshort, strk, exp),
                  [cls |-> "AmericanContract", dtype |-> dtype, updown |-> None, inout |-> None])

NewEuropeanDigitalContract ==
    /\ Blank
    /\ \E und \in Stock, dtype \in PutCallFwd, longshort \in LongShort,
       strk \in StrikeVals, exp \in ExpiryVals :
        Construct(EuropeanDigitalContract_init(und, dtype, longshort, strk, exp),
                  [cls |-> "EuropeanDigitalContract", dtype |-> dtype,
                   updown |-> None, inout |-> None])

NewAsianContract ==
    /\ Blank
    /\ \E und \in Stock, dtype \in PutCallFwd, longshort \in LongShort,
       strk \in StrikeVals, exp \in ExpiryVals :
        Construct(AsianContract_init(und, dtype, longshort, strk, exp),
                  [cls |-> "AsianContract", dtype |-> dtype, updown |-> None, inout |-> None])

NewEuropeanBarrierContract ==
    /\ Blank
    /\ \E und \in Stock, dtype \in PutCallFwd, longshort \in LongShort,
       strk \in StrikeVals, exp \in ExpiryVals, barrier \in BarrierVals,
       updown \in UpDown \cup {None}, inout \in InOut \cup {None} :
        Construct(EuropeanBarrierContract_init(und, dtype, longshort, strk, exp,
                                               barrier, updown, inout),
                  [cls |-> "EuropeanBarrierContract", dtype |-> dtype,
                   updown |-> updown, inout |-> inout])

\* GenericContract(...) with arguments of the caller's choosing
NewGenericContract ==
    /\ Blank
    /\ \E contract \in ContractType, und \in Stock, dtype \in PutCallFwd \cup {None},
       longshort \in LongShort, strk \in StrikeVals, exp \in ExpiryVals,
       barrier \in BarrierVals \cup {Inf}, updown \in UpDown \cup {None},
       inout \in InOut \cup {None} :
        LET r == GenericContract_init(contract, und, dtype, longshort, strk, exp,
                                      barrier, updown, inout)
        IN  /\ g' = r.self
            /\ err' = r.raised
            /\ assigned' = r.assigned
            /\ args' = [cls |-> "GenericContract", dtype |-> dtype,
                        updown |-> updown, inout |-> inout]
            /\ UNCHANGED <<c, x, res, gres, aux>>
            /\ UNCHANGED marketVars

\* generic = trade.convert_to_generic(trade.get_contract(), trade.get_und(), ...)
ConvertToGeneric ==
    /\ c # NoContract
    /\ g = NoContract
    /\ LET r == ToGeneric(c)
       IN  /\ g' = r.self
           /\ err' = r.raised
    /\ UNCHANGED <<c, x, res, gres, aux, args, assigned>>
    /\ UNCHANGED marketVars

TradeTag == IF c # NoContract THEN c.contract ELSE g.contract

\* values = [...]: the price input is fixed once, before any payoff is asked for
ChooseInput ==
    /\ c # NoContract \/ g # NoContract
    /\ x = NoInput
    /\ \E inp \in Inputs :
        /\ inp.shape = ShapeOf(TradeTag)
        /\ x' = inp
    /\ res' = Pending
    /\ gres' = Pending
    /\ aux' = NoAux
    /\ UNCHANGED <<c, g, err, args, assigned>>
    /\ UNCHANGED marketVars

PayoffConcrete ==
    /\ c # NoContract
    /\ x.shape = ShapeOf(c.contract)
    /\ res' = payoff(c, x)
    /\ UNCHANGED <<c, g, x, gres, aux, err, args, assigned>>
    /\ UNCHANGED marketVars

PayoffGeneric ==
    /\ g # NoContract
    /\ x.shape = ShapeOf(g.contract)
    /\ gres' = GenericContract_payoff(g, x)
    /\ UNCHANGED <<c, g, x, res, aux, err, args, assigned>>
    /\ UNCHANGED marketVars

IsBreachedConcrete ==
    /\ c.cls = "EuropeanBarrierContract"
    /\ x.shape = "list"
    /\ aux' = [op |-> "is_breached", who |-> "concrete",
               flag |-> EuropeanBarrierContract_is_breached(c, x.prices), seq |-> <<>>]
    /\ UNCHANGED <<c, g, x, res, gres, err, args, assigned>>
    /\ UNCHANGED marketVars

IsBreachedGeneric ==
    /\ g # NoContract
    /\ x.shape = "list"
    /\ aux' = [op |-> "is_breached", who |-> "generic",
               flag |-> GenericContract_is_breached(g, x.prices), seq |-> <<>>]
    /\ UNCHANGED <<c, g, x, res, gres, err, args, assigned>>
    /\ UNCHANGED marketVars

GetTimeline ==
    /\ c # NoContract
    /\ aux' = [op |-> "get_timeline", who |-> "concrete", flag |-> FALSE,
               seq |-> get_timeline(c)]
    /\ UNCHANGED <<c, g, x, res, gres, err, args, assigned>>
    /\ UNCHANGED marketVars

NoArgs == [cls |-> None, dtype |-> None, updown |-> None, inout |-> None]

\* the program drops the trade it holds
Discard ==
    /\ ~NoTrade
    /\ c' = NoContract
    /\ g' = NoContract
    /\ x' = NoInput
    /\ res' = Pending
    /\ gres' = Pending
    /\ aux' = NoAux
    /\ err' = None
    /\ args' = NoArgs
    /\ assigned' = {}
    /\ UNCHANGED marketVars

Next ==
    \/ NewForwardContract
    \/ NewEuropeanContract
    \/ NewAmericanContract
    \/ NewEuropeanDigitalContract
    \/ NewAsianContract
    \/ NewEuropeanBarrierContract
    \/ NewGenericContract
    \/ ConvertToGeneric
    \/ ChooseInput
    \/ PayoffConcrete
    \/ PayoffGeneric
    \/ IsBreachedConcrete
    \/ IsBreachedGeneric
    \/ GetTimeline
    \/ Discard

Init == NoTrade /\ NoMarket

Spec == Init /\ [][Next]_vars

(***************************************************************************)
(* Market model operations.                                                *)
(***************************************************************************)
MarketModel_init(cls, und) ==
    /\ underlying = und
    /\ kind = cls
    /\ risk_free_rate = MarketData_get_risk_free_rate
    /\ spot = MarketData_get_spot(und)
    /\ volgrid = MarketData_get_volgrid(und)

MarketInit ==
    /\ NoTrade
    /\ \E cls \in {"BSVolModel", "FlatVolModel"}, und \in Stock : MarketModel_init(cls, und)
    /\ sumRate = 0
    /\ sumSpot = 0
    /\ sumVol = 0
    /\ lastOp = None
    /\ lastArg = <<>>
    /\ lastCoord = <<>>
    /\ lastOut = 0

Abs(n) == IF n < 0 THEN -n ELSE n

\* variant: = in place of +=
bump_rate_value_assign(rate, bump_size) == bump_size

bump_rate_value(rate, bump_size) == rate + bump_size

bump_spot_value(spot_, bump_size) == spot_ + bump_size

bump_volgrid_values(values, bump_size) == [pt \in DOMAIN values |-> values[pt] + bump_size]

bump_rate ==
    \E bump_size \in BumpSizes :
        /\ Abs(sumRate + bump_size) <= MaxBump
        /\ risk_free_rate' = bump_rate_value(risk_free_rate, bump_size)
        /\ sumRate' = sumRate + bump_size
        /\ lastOp' = "bump_rate"
        /\ lastArg' = <<bump_size>>
        /\ UNCHANGED <<underlying, kind, spot, volgrid, sumSpot, sumVol, lastCoord, lastOut>>
        /\ UNCHANGED contractVars

bump_spot ==
    \E bump_size \in BumpSizes :
        /\ Abs(sumSpot + bump_size) <= MaxBump
        /\ spot' = bump_spot_value(spot, bump_size)
        /\ sumSpot' = sumSpot + bump_size
        /\ lastOp' = "bump_spot"
        /\ lastArg' = <<bump_size>>
        /\ UNCHANGED <<underlying, kind, risk_free_rate, volgrid, sumRate, sumVol,
                       lastCoord, lastOut>>
        /\ UNCHANGED contractVars

bump_volgrid ==
    \E bump_size \in BumpSizes :
        /\ Abs(sumVol + bump_size) <= MaxBump
        /\ volgrid' = bump_volgrid_values(volgrid, bump_size)
        /\ sumVol' = sumVol + bump_size
        /\ lastOp' = "bump_volgrid"
        /\ lastArg' = <<bump_size>>
        /\ UNCHANGED <<underlying, kind, risk_free_rate, spot, sumRate, sumSpot,
                       lastCoord, lastOut>>
        /\ UNCHANGED contractVars

calc_df ==
    \E tenor \in Tenors :
        /\ lastOut' = calc_df_exponent(risk_free_rate, tenor)
        /\ lastOp' = "calc_df"
        /\ lastArg' = <<tenor>>
        /\ UNCHANGED <<underlying, kind, risk_free_rate, spot, volgrid,
                       sumRate, sumSpot, sumVol, lastCoord>>
        /\ UNCHANGED contractVars

get_vol ==
    \E strike \in GridStrikes, expiry \in GridExpiries :
        LET coordinate == IF kind = "BSVolModel"
                          THEN BSVolModel_coordinate(spot, strike, expiry)
                          ELSE FlatVolModel_coordinate(spot, strike, expiry)
        IN  /\ lastCoord' = coordinate
            /\ lastOut' = VolGrid_get_vol(volgrid, coordinate)
            /\ lastOp' = "get_vol"
            /\ lastArg' = <<strike, expiry>>
            /\ UNCHANGED <<underlying, kind, risk_free_rate, spot, volgrid,
                           sumRate, sumSpot, sumVol>>
            /\ UNCHANGED contractVars

MarketNext ==
    \/ bump_rate
    \/ bump_spot
    \/ bump_volgrid
    \/ calc_df
    \/ get_vol

MarketSpec == MarketInit /\ [][MarketNext]_vars

(***************************************************************************)
(* Properties.                                                             *)
(***************************************************************************)
Done(r) == r.kind # "pending"

Last(s) == s[Len(s)]

\* C1: a generic contract built by convert_to_generic from a concrete
\* contract's own accessor values pays exactly what the concrete contract pays
\* on the same price input.
C1_RoundTrip ==
    (c # NoContract /\ g # NoContract /\ Done(res) /\ Done(gres))
        => (res.kind = "float" /\ gres = res)

C1_Witness ==
    /\ c.cls = "EuropeanBarrierContract"
    /\ g.cls = "GenericContract"
    /\ g.contract = "EUROPEANBARRIEROPTION"
    /\ Done(res)
    /\ gres = res
    /\ res.val > 0

OptionClasses == {"EuropeanContract", "AmericanContract", "EuropeanDigitalContract",
                  "AsianContract", "EuropeanBarrierContract"}

ArgsPermitted ==
    /\ args.dtype \in {"CALL", "PUT"}
    /\ args.cls = "EuropeanBarrierContract" => (args.updown \in UpDown /\ args.inout \in InOut)

\* C2: constructing an option contract with a direction outside {CALL, PUT}, or
\* a barrier contract with updown outside {UP, DOWN} or inout outside {IN, OUT},
\* raises the validation error before any field is set and yields no contract;
\* with every parameter permitted, construction succeeds.
C2_Validation ==
    args.cls \in OptionClasses =>
        /\ ~ArgsPermitted =>
              /\ err \in {ErrDerivativeType, ErrUpdown, ErrInout}
              /\ assigned = {}
              /\ c = NoContract
        /\ ArgsPermitted =>
              /\ err = None
              /\ c.cls = args.cls
              /\ c.dtype = args.dtype
              /\ assigned # {}

C2_Witness ==
    /\ args.cls = "EuropeanBarrierContract"
    /\ args.dtype = "CALL"
    /\ args.updown = "UP"
    /\ args.inout = None
    /\ err = ErrInout
    /\ assigned = {}
    /\ c = NoContract

StrictlyIncreasing(s) == \A i \in 1..(Len(s) - 1) : s[i] < s[i + 1]

\* C3: the timeline of a vanilla contract is [expiry]; the timeline of a
\* path-dependent contract has num_mon elements, is strictly increasing and
\* ends at expiry.
C3_Timeline ==
    (aux.op = "get_timeline" /\ aux.who = "concrete") =>
        /\ c.cls \in {"ForwardContract", "EuropeanContract", "AmericanContract",
                      "EuropeanDigitalContract"} =>
              (Len(aux.seq) = 1 /\ aux.seq = <<c.expiry>>)
        /\ c.cls \in {"AsianContract", "EuropeanBarrierContract"} =>
              /\ Len(aux.seq) = c.num_mon
              /\ Len(aux.seq) >= 1
              /\ StrictlyIncreasing(aux.seq)
              /\ Last(aux.seq) = c.expiry

C3_Witness ==
    /\ aux.op = "get_timeline"
    /\ c.cls = "AsianContract"
    /\ c.expiry = Num(2)
    /\ aux.seq = <<Num(2)>>

\* C4: with updown UP, is_breached is true iff some price is >= the barrier;
\* with updown DOWN, iff some price is <= the barrier; for the barrier contract
\* and for a generic contract carrying a barrier.
C4_Breach ==
    aux.op = "is_breached" =>
        LET self == IF aux.who = "concrete" THEN c ELSE g
            p == x.prices
        IN  /\ self.updown = "UP" =>
                  (aux.flag <=> \E i \in 1..Len(p) : p[i] >= self.barrier)
            /\ self.updown = "DOWN" =>
                  (aux.flag <=> \E i \in 1..Len(p) : p[i] <= self.barrier)

C4_Witness ==
    /\ aux.op = "is_breached"
    /\ aux.who = "generic"
    /\ g.updown = "UP"
    /\ g.barrier = Num(2)
    /\ x.prices = <<Num(2), Num(1)>>
    /\ aux.flag

\* C5: a barrier contract pays m * s * max(S_last - K, 0) for a call and
\* m * s * max(K - S_last, 0) for a put, with m = 1 if (IN and breached) or
\* (OUT and not breached) and m = 0 otherwise.
C5_BarrierPayoff ==
    (c.cls = "EuropeanBarrierContract" /\ Done(res)) =>
        LET p == x.prices
            breached == IF c.updown = "UP"
                        THEN \E i \in 1..Len(p) : p[i] >= c.barrier
                        ELSE \E i \in 1..Len(p) : p[i] <= c.barrier
            m == IF (c.inout = "IN" /\ breached) \/ (c.inout = "OUT" /\ ~breached)
                 THEN 1 ELSE 0
            s == IF c.longshort = "LONG" THEN 1 ELSE -1
        IN  /\ res.kind = "float"
            /\ c.dtype = "CALL" => res.val = m * s * Max(Last(p) - c.strike, 0)
            /\ c.dtype = "PUT" => res.val = m * s * Max(c.strike - Last(p), 0)

C5_Witness ==
    /\ c.cls = "EuropeanBarrierContract"
    /\ c.inout = "IN"
    /\ c.updown = "UP"
    /\ c.dtype = "PUT"
    /\ c.strike = Num(2)
    /\ c.barrier = Num(2)
    /\ x.prices = <<Num(2), Num(0)>>
    /\ res = Value(c.ls * Num(2))

\* the same contract constructed with the other position
Twin(self) ==
    LET other == IF self.longshort = "LONG" THEN "SHORT" ELSE "LONG"
    IN  CASE self.cls = "ForwardContract" ->
                 ForwardContract_init(self.und, other, self.strike, self.expiry).self
          [] self.cls = "EuropeanContract" ->
                 EuropeanContract_init(self.und, self.dtype, other, self.strike,
                                       self.expiry).self
          [] self.cls = "AmericanContract" ->
                 AmericanContract_init(self.und, self.dtype, other, self.strike,
                                       self.expiry).self
          [] self.cls = "EuropeanDigitalContract" ->
                 EuropeanDigitalContract_init(self.und, self.dtype, other, self.strike,
                                              self.expiry).self
          [] self.cls = "AsianContract" ->
                 AsianContract_init(self.und, self.dtype, other, self.strike,
                                    self.expiry).self
          [] self.cls = "EuropeanBarrierContract" ->
                 EuropeanBarrierContract_init(self.und, self.dtype, other, self.strike,
                                              self.expiry, self.barrier, self.updown,
                                              self.inout).self

\* C6: two contracts that differ only in position pay opposite amounts on the
\* same price input.
C6_SignSymmetry ==
    (c # NoContract /\ Done(res)) =>
        /\ Twin(c).longshort # c.longshort
        /\ [Twin(c) EXCEPT !.longshort = c.longshort, !.ls = c.ls] = c
        /\ res.kind = "float"
        /\ payoff(Twin(c), x).kind = "float"
        /\ payoff(Twin(c), x).val = -res.val

C6_Witness ==
    /\ c.cls = "AsianContract"
    /\ c.longshort = "SHORT"
    /\ Done(res)
    /\ res.val < 0
    /\ payoff(Twin(c), x).val > 0

\* C7: a digital contract pays exactly 0 at S = K; a call pays sign * 1 above
\* the strike and 0 below, a put pays sign * 1 below the strike and 0 above.
C7_Digital ==
    (c.cls = "EuropeanDigitalContract" /\ Done(res)) =>
        LET S == x.prices[1]
            K == c.strike
            s == IF c.longshort = "LONG" THEN 1 ELSE -1
        IN  /\ res.kind = "float"
            /\ S = K => res.val = 0
            /\ (c.dtype = "CALL" /\ S > K) => res.val = s * Num(1)
            /\ (c.dtype = "CALL" /\ S < K) => res.val = 0
            /\ (c.dtype = "PUT" /\ S < K) => res.val = s * Num(1)
            /\ (c.dtype = "PUT" /\ S > K) => res.val = 0

C7_Witness ==
    /\ c.cls = "EuropeanDigitalContract"
    /\ c.dtype = "PUT"
    /\ c.longshort = "SHORT"
    /\ Done(res)
    /\ x.prices[1] = c.strike
    /\ res = Value(0)

C8_State ==
    /\ risk_free_rate = MarketData_get_risk_free_rate + sumRate
    /\ spot = MarketData_get_spot(underlying) + sumSpot
    /\ volgrid = [pt \in GridPoints |-> MarketData_get_volgrid(underlying)[pt] + sumVol]

C8_Step ==
    /\ lastOp' = "bump_rate" =>
          /\ risk_free_rate' = risk_free_rate + lastArg'[1]
          /\ UNCHANGED <<spot, volgrid, underlying>>
    /\ lastOp' = "bump_spot" =>
          /\ spot' = spot + lastArg'[1]
          /\ UNCHANGED <<risk_free_rate, volgrid, underlying>>
    /\ lastOp' = "bump_volgrid" =>
          /\ \A pt \in GridPoints : volgrid'[pt] = volgrid[pt] + lastArg'[1]
          /\ UNCHANGED <<risk_free_rate, spot, underlying>>
    /\ lastOp' \in {"calc_df", "get_vol"} =>
          UNCHANGED <<risk_free_rate, spot, volgrid, underlying>>

\* C8: the rate, the spot and every grid value equal their initial value plus
\* the sum of the sizes of their own bumps; each bump changes only its own
\* quantity, and calc_df and get_vol change nothing.
C8_Bumps == []C8_State /\ [][C8_Step]_vars

C8_Witness ==
    /\ sumRate = 2
    /\ sumSpot = -1
    /\ sumVol = 1
    /\ lastOp = "get_vol"
    /\ risk_free_rate = Rate0 + 2
    /\ spot = Spot0 - 1
    /\ volgrid[<<Spot0, 1>>] = Vol0(<<Spot0, 1>>) + 1

\* C9: FlatVolModel.get_vol queries the grid at (strike, expiry);
\* BSVolModel.get_vol queries it at (current spot, 1.0) whatever the arguments,
\* so after bump_spot the strike coordinate is the bumped spot.
C9_GetVol ==
    lastOp = "get_vol" =>
        /\ kind = "FlatVolModel" =>
              /\ lastCoord = <<lastArg[1], lastArg[2]>>
              /\ lastOut = VolGrid_get_vol(volgrid, <<lastArg[1], lastArg[2]>>)
        /\ kind = "BSVolModel" =>
              /\ lastCoord = <<spot, 1>>
              /\ lastCoord[1] = MarketData_get_spot(underlying) + sumSpot
              /\ lastOut = VolGrid_get_vol(volgrid, <<spot, 1>>)

C9_Witness ==
    /\ kind = "BSVolModel"
    /\ lastOp = "get_vol"
    /\ sumSpot = 1
    /\ lastArg = <<Spot0 - 1, 2>>
    /\ lastCoord = <<Spot0 + 1, 1>>

\* C10: payoff of a successfully constructed contract, a GenericContract with
\* any kind tag and any accepted option direction included, returns a number.
C10_PayoffReturnsNumber ==
    /\ Done(res) => res.kind = "float"
    /\ Done(gres) => gres.kind = "float"

====
